---- MODULE Spec2Model ----
(***************************************************************************)
(* Cloud architecture diagram tool: the diagram text codec (serialize of   *)
(* the frontend, parse of the analysis backend), the compliance-rule       *)
(* similarity search of the vector store, and the Analyze request.         *)
(*                                                                         *)
(* A text is a sequence of characters (one-character strings), so that     *)
(* line breaks and token separators inside ids are visible to the model.   *)
(***************************************************************************)
EXTENDS Integers, Sequences, FiniteSets, TLC

VARIABLES
    origin,     \* codec: "built" (a connection list built directly) or "text"
    conns,      \* codec: the DiagramConnection[] handed to serialize
    text1,      \* codec: the diagram text (serialize's result, or text received)
    parsed1,    \* codec: parse(text1)
    text2,      \* codec: serialize of the parsed graph
    parsed2,    \* codec: parse(text2)
    codecPc,    \* codec: "idle", "built", "serialized", "parsed", "reserialized", "reparsed"
    store,      \* search: per rule, embedding <=> query_embedding, or NULL
    threshold,  \* search: match_threshold of the first search
    limit,      \* search: match_count of both searches
    matches,    \* search: the rows the first search returned
    threshold2, \* search: match_threshold of the second search
    matches2,   \* search: the rows the second search returned
    searchPc,   \* search: "off", "idle", "searched", "again"
    reqOp,          \* request: "Analyze", "Verify" or "AnalyzeAndVerify"
    reqText,        \* request: the diagram text received
    reqState,       \* request: Idle, Received, Parsed, Retrieved, Analyzed, Verified,
                    \*          Completed, Failed
    reqGraph,       \* request: the edges of the parsed graph
    reqError,       \* request: the error of a Failed request
    pendingTypes,   \* request: service types whose rules are still to be retrieved
    retrievalPartial, \* request: some retrieval failed and was swallowed
    retrievalCalls, \* request: retrieval calls issued
    reasoningCalls, \* request: reasoning-service calls issued
    reqRisks,       \* request: the risk list (given to Verify, or returned by analysis)
    analysisCall,   \* request: the analysis reasoning call: "none", "inflight", "finished"
    verifyCall,     \* request: the verification reasoning call: "none", "inflight", "finished"
    verifyCalls,    \* request: verification reasoning calls issued
    correctedTexts, \* request: the corrected diagrams the reasoning service returned
    verifyFeedback, \* request: the parse error the corrective follow-up carries
    reqResult,      \* request: what a Completed request returns
    failedFrom,     \* request: the state a Failed request was in when it failed
    mounted,        \* canvas: App is rendered
    nodes,          \* canvas: App's nodes, DiagramNode[]
    connections,    \* canvas: App's connections, DiagramConnection[]
    selectedNode,   \* canvas: App's selectedNode, a node id or none
    isConnecting,   \* canvas: Canvas's isConnecting
    connectionStart, \* canvas: Canvas's connectionStart, none or <<{id, type}>>
    clock,          \* canvas: Date.now()
    updateCount,    \* canvas: onUpdate calls so far
    lastEvent,      \* canvas: the kind of the latest event
    lastTarget,     \* canvas: the position of the node or connection it was on, or 0
    dragOn,         \* drag: a NodeComponent is rendered
    nodePos,        \* drag: node.x, node.y of its node
    isDragging,     \* drag: NodeComponent's isDragging
    dragStart,      \* drag: NodeComponent's dragStart
    listening,      \* drag: the effect's mousemove and mouseup listeners are on document
    animationFrameRef, \* drag: animationFrameRef.current, 0 for null
    frames,         \* drag: the animation-frame callbacks requested and not yet run or
                    \*       cancelled, each with the position it will set
    frameCount,     \* drag: animation frames requested so far (the last id given)
    buttonDown,     \* drag: the mouse button is held
    dragCount,      \* drag: left mouse-downs so far
    lastDragEvent,  \* drag: the kind of the latest event
    pendingBefore   \* drag: how many callbacks were pending when it happened

codecVars == <<origin, conns, text1, parsed1, text2, parsed2, codecPc>>
searchVars == <<store, threshold, limit, matches, threshold2, matches2, searchPc>>
requestVars == <<reqOp, reqText, reqState, reqGraph, reqError, pendingTypes,
                 retrievalPartial, retrievalCalls, reasoningCalls, reqRisks,
                 analysisCall, verifyCall, verifyCalls, correctedTexts,
                 verifyFeedback, reqResult, failedFrom>>
canvasVars == <<mounted, nodes, connections, selectedNode, isConnecting,
                connectionStart, clock, updateCount, lastEvent, lastTarget>>
dragVars == <<dragOn, nodePos, isDragging, dragStart, listening, animationFrameRef,
              frames, frameCount, buttonDown, dragCount, lastDragEvent, pendingBefore>>
vars == <<codecVars, searchVars, requestVars, canvasVars, dragVars>>

----------------------------------------------------------------------------
(* Bounds of the model *)

\* Longest connection list handed to serialize.
MaxConns == 2

\* Rows of compliance_rules.
MaxRules == 3

\* Largest cosine distance of a stored embedding to the query, in whole units
\* (0: same direction, 1: orthogonal, 2: opposite).
MaxDist == 2

\* Largest match_count.
MaxLimit == 3
MaxRisks == 1
MaxAffected == 2
MaxNodes == 3
MaxCanvasConns == 2
MaxClock == 3
MaxUpdates == 1

\* Animation frames requested, left mouse-downs, in a run of the drag.
MaxFrames == 3
MaxDrags == 2

----------------------------------------------------------------------------
(* Characters *)

NL == "\n"
SP == " "

LowerChars == {
    "a", "b", "c", "d", "e", "f", "g", "h", "i", "j", "k", "l", "m", "n",
    "o", "p", "q", "r", "s", "t", "u", "v", "w", "x", "y", "z" }

UpperChars == {
    "A", "B", "C", "D", "E", "F", "G", "H", "I", "J", "K", "L", "M", "N",
    "O", "P", "Q", "R", "S", "T", "U", "V", "W", "X", "Y", "Z" }

DigitChars == {
    "0", "1", "2", "3", "4", "5", "6", "7", "8", "9" }

\* The character set the spec allows in a node id: [a-zA-Z0-9_-].
AllowedIdChars == LowerChars \cup UpperChars \cup DigitChars \cup {"_", "-"}

\* Token separators of the diagram grammar.
Whitespace == {SP, "\t"}

----------------------------------------------------------------------------
(* Sidebar.tsx: the service catalog (the ids of cloudServices) *)

cloudServices == {
    <<"a","w","s","-","e","c","2">>,
    <<"a","w","s","-","l","a","m","b","d","a">>,
    <<"a","w","s","-","s","3">>,
    <<"a","w","s","-","r","d","s">>,
    <<"a","w","s","-","v","p","c">>,
    <<"a","w","s","-","i","a","m">>,
    <<"a","w","s","-","c","l","o","u","d","f","r","o","n","t">>,
    <<"a","w","s","-","s","q","s">>,
    <<"a","z","u","r","e","-","v","m">>,
    <<"a","z","u","r","e","-","f","u","n","c","t","i","o","n","s">>,
    <<"a","z","u","r","e","-","s","t","o","r","a","g","e">>,
    <<"a","z","u","r","e","-","s","q","l">>,
    <<"a","z","u","r","e","-","v","n","e","t">>,
    <<"a","z","u","r","e","-","a","d">>,
    <<"a","z","u","r","e","-","c","d","n">>,
    <<"a","z","u","r","e","-","s","e","r","v","i","c","e","-","b","u","s">>,
    <<"g","c","p","-","c","o","m","p","u","t","e">>,
    <<"g","c","p","-","c","l","o","u","d","-","f","u","n","c","t","i","o","n","s">>,
    <<"g","c","p","-","s","t","o","r","a","g","e">>,
    <<"g","c","p","-","s","q","l">>,
    <<"g","c","p","-","v","p","c">>,
    <<"g","c","p","-","i","a","m">>,
    <<"g","c","p","-","c","d","n">>,
    <<"g","c","p","-","p","u","b","s","u","b">>,
    <<"l","o","a","d","-","b","a","l","a","n","c","e","r">>,
    <<"a","p","i","-","g","a","t","e","w","a","y">>,
    <<"m","o","n","i","t","o","r","i","n","g">>,
    <<"l","o","g","g","i","n","g">> }

----------------------------------------------------------------------------
(* types.ts: serialize, getConnectorSymbol, sanitize *)

StartMarker == <<"@","s","t","a","r","t","d","i","a","g","r","a","m">>
EndMarker == <<"@","e","n","d","d","i","a","g","r","a","m">>

ConnectorKinds == {"solid", "dashed", "dotted"}

\* DiagramConnection.type is optional: "undefined" is the absent field.
ConnTypes == ConnectorKinds \cup {"undefined"}

getConnectorSymbolDashedAsSolid(type) ==
    CASE type = "dotted" -> <<".", ".", ">">>
      [] OTHER -> <<"-", ">">>

getConnectorSymbol(type) ==
    CASE type = "dashed" -> <<"-", "-", ">">>
      [] type = "dotted" -> <<".", ".", ">">>
      [] OTHER -> <<"-", ">">>

connLineSwappedIds(conn) ==
    conn.from.type \o <<SP>> \o conn.to.id \o <<SP>>
        \o getConnectorSymbol(conn.type) \o <<SP>>
        \o conn.to.type \o <<SP>> \o conn.from.id

\* The template literal of the loop body: no field is sanitized.
connLineSourceTwice(conn) ==
    conn.from.type \o <<SP>> \o conn.from.id \o <<SP>>
        \o getConnectorSymbol(conn.type) \o <<SP>>
        \o conn.to.type \o <<SP>> \o conn.from.id

connLine(conn) ==
    conn.from.type \o <<SP>> \o conn.from.id \o <<SP>>
        \o getConnectorSymbol(conn.type) \o <<SP>>
        \o conn.to.type \o <<SP>> \o conn.to.id

\* Array.prototype.join
RECURSIVE join(_, _)
join(lines, sep) ==
    IF Len(lines) = 0 THEN <<>>
    ELSE IF Len(lines) = 1 THEN lines[1]
    ELSE lines[1] \o sep \o join(Tail(lines), sep)

serialize(list) ==
    join(<<StartMarker>>
            \o [i \in 1..Len(list) |-> connLine(list[i])]
            \o <<EndMarker>>,
         <<NL>>)

\* label.replace(/[^a-zA-Z0-9_\- ]/g, '_'): defined in types.ts, called nowhere.
sanitize(label) ==
    [i \in 1..Len(label) |->
        IF label[i] \in AllowedIdChars \cup {SP} THEN label[i] ELSE "_"]

----------------------------------------------------------------------------
(* Diagram Language Codec, parse: section 4.1 of the design *)

\* The k-th smallest element of a set of positions.
nth(S, k) == CHOOSE i \in S : Cardinality({j \in S : j < i}) = k - 1

\* The lines of a text: the pieces between line breaks, empty ones kept.
splitLines(text) ==
    LET breaks == {i \in 1..Len(text) : text[i] = NL}
        n == Cardinality(breaks) + 1
        bound(k) == IF k = 0 THEN 0
                    ELSE IF k = n THEN Len(text) + 1
                    ELSE nth(breaks, k)
    IN [k \in 1..n |-> SubSeq(text, bound(k - 1) + 1, bound(k) - 1)]

\* The whitespace-separated tokens of a line.
tokenize(line) ==
    LET isWord(i) == i >= 1 /\ i <= Len(line) /\ line[i] \notin Whitespace
        starts == {i \in 1..Len(line) : isWord(i) /\ ~isWord(i - 1)}
        ends == {i \in 1..Len(line) : isWord(i) /\ ~isWord(i + 1)}
    IN [k \in 1..Cardinality(starts) |-> SubSeq(line, nth(starts, k), nth(ends, k))]

\* Lenient: an unrecognized symbol is the solid kind.
parseConnector(sym) ==
    CASE sym = <<"-", "-", ">">> -> "dashed"
      [] sym = <<".", ".", ">">> -> "dotted"
      [] OTHER -> "solid"

resolvesAnything(serviceType) == TRUE

\* A service-type token resolves when the catalog lists it.
resolves(serviceType) == serviceType \in cloudServices

ParseOk(edges) == [ok |-> TRUE, line |-> 0, edges |-> edges]
ParseError(line) == [ok |-> FALSE, line |-> line, edges |-> <<>>]

NoParse == ParseError(0)

parseEdge(toks) ==
    [from |-> [type |-> toks[1], id |-> toks[2]],
     to |-> [type |-> toks[4], id |-> toks[5]],
     type |-> parseConnector(toks[3])]

\* mode: "before" the start marker, "inside" the diagram, "after" the end marker.
RECURSIVE parseScan(_, _, _, _)
parseScan(lines, i, mode, edges) ==
    IF i > Len(lines)
    THEN (IF mode = "after" THEN ParseOk(edges) ELSE ParseError(Len(lines)))
    ELSE LET toks == tokenize(lines[i]) IN
         IF toks = <<>> THEN parseScan(lines, i + 1, mode, edges)
         ELSE IF mode = "before"
              THEN (IF toks = <<StartMarker>>
                    THEN parseScan(lines, i + 1, "inside", edges)
                    ELSE ParseError(i))
         ELSE IF mode = "inside"
              THEN (IF toks = <<EndMarker>>
                    THEN parseScan(lines, i + 1, "after", edges)
                    ELSE IF Len(toks) # 5 THEN ParseError(i)
                    ELSE IF ~resolves(toks[1]) \/ ~resolves(toks[4])
                         THEN ParseError(i)
                    ELSE parseScan(lines, i + 1, mode, Append(edges, parseEdge(toks))))
         ELSE ParseError(i)

parse(text) == parseScan(splitLines(text), 1, "before", <<>>)

----------------------------------------------------------------------------
(* setup_supabase.sql: compliance_rules and match_compliance_rules *)

\* A distance is <<d>>; the NULL of SQL is the empty tuple.
NULL == <<>>

\* compliance_rules.id; the order of the numbers stands for the order of the UUIDs.
RuleIds == 1..MaxRules

\* compliance_rules.embedding is nullable: <=> of a NULL embedding is NULL.
Distances == {<<d>> : d \in 0..MaxDist} \cup {NULL}

\* 1 - (compliance_rules.embedding <=> query_embedding) AS similarity
similarity(dist) == 1 - dist[1]

wherePassesOrEqual(dist, match_threshold) ==
    dist # NULL /\ similarity(dist) >= match_threshold

wherePassesBelow(dist, match_threshold) ==
    dist # NULL /\ similarity(dist) < match_threshold

\* WHERE 1 - (embedding <=> query_embedding) > match_threshold; NULL > x is not true.
wherePasses(dist, match_threshold) ==
    dist # NULL /\ similarity(dist) > match_threshold

orderByDescending(d1, d2) == d1[1] >= d2[1]

\* ORDER BY embedding <=> query_embedding: ascending distance, nothing else.
orderBy(d1, d2) == d1[1] <= d2[1]

minOf(a, b) == IF a <= b THEN a ELSE b

\* Every row sequence the SELECT may return: the first match_count rows of some
\* ordering of the qualifying rows that ORDER BY admits. Rows of equal distance
\* come in whatever order the executor produces them.
match_compliance_rules(rules, match_threshold, match_count) ==
    LET Q == {id \in RuleIds : wherePasses(rules[id], match_threshold)}
        k == minOf(match_count, Cardinality(Q))
        picks == {s \in [1..k -> Q] :
                    /\ \A i, j \in 1..k : i < j =>
                          s[i] # s[j] /\ orderBy(rules[s[i]], rules[s[j]])
                    /\ \A q \in Q \ {s[i] : i \in 1..k} :
                          \A i \in 1..k : orderBy(rules[s[i]], rules[q])}
    IN {[i \in 1..k |-> [id |-> s[i], similarity |-> similarity(rules[s[i]])]] :
            s \in picks}

Thresholds == (0 - MaxDist)..1
Limits == 0..MaxLimit

SearchIdle ==
    /\ store = [id \in RuleIds |-> NULL]
    /\ threshold = 0
    /\ limit = 0
    /\ matches = <<>>
    /\ threshold2 = 0
    /\ matches2 = <<>>
    /\ searchPc = "off"

----------------------------------------------------------------------------
(* Inputs of the codec *)

awsEc2 == <<"a","w","s","-","e","c","2">>
awsRds == <<"a","w","s","-","r","d","s">>
awsS3 == <<"a","w","s","-","s","3">>
fooBar == <<"f","o","o","-","b","a","r">>

\* Nodes with ids inside [a-zA-Z0-9_-].
nodeWeb == [type |-> awsEc2, id |-> <<"w","e","b">>]
nodeDb == [type |-> awsRds, id |-> <<"D","b","_","1">>]

CleanNodes == {nodeWeb, nodeDb}

\* Nodes with an id outside [a-zA-Z0-9_-]: a space, a "$", a line break.
nodeSpace == [type |-> awsS3, id |-> <<"a"," ","b">>]
nodeDollar == [type |-> awsS3, id |-> <<"x","$","y">>]
nodeNewline == [type |-> awsS3, id |-> <<"p","\n","q">>]

\* One connection per kind with a node whose id is outside [a-zA-Z0-9_-].
DirtyConnections == {
    [from |-> nodeWeb, to |-> nodeSpace, type |-> "solid"],
    [from |-> nodeSpace, to |-> nodeDb, type |-> "dashed"],
    [from |-> nodeDollar, to |-> nodeWeb, type |-> "undefined"],
    [from |-> nodeDb, to |-> nodeNewline, type |-> "dotted"] }

ConnDomain ==
    [from : CleanNodes, to : CleanNodes, type : ConnTypes] \cup DirtyConnections

SeqsUpTo(S, n) == UNION {[1..k -> S] : k \in 0..n}

BuiltGraphs == SeqsUpTo(ConnDomain, MaxConns)

words(toks) == join(toks, <<SP>>)
textOf(lines) == join(lines, <<NL>>)

\* Diagram texts that arrive from outside (not written by serialize).
RawTexts == {
    \* a lenient connector, extra spaces, a blank line
    textOf(<<StartMarker,
             words(<<awsEc2, <<"w","e","b">>, <<"=", ">">>, awsRds, <<"D","b","_","1">>>>),
             <<>>,
             <<SP>> \o words(<<awsRds, <<"D","b","_","1">>, <<"-", "-", ">">>, <<>>, awsS3, <<"b","u","c","k","e","t">>>>),
             EndMarker>>),
    \* the three canonical connectors, a repeated edge
    textOf(<<StartMarker,
             words(<<awsEc2, <<"w","e","b">>, <<"-", ">">>, awsRds, <<"D","b","_","1">>>>),
             words(<<awsS3, <<"x","$","y">>, <<".", ".", ">">>, awsEc2, <<"w","e","b">>>>),
             words(<<awsEc2, <<"w","e","b">>, <<"-", ">">>, awsRds, <<"D","b","_","1">>>>),
             EndMarker>>),
    \* an unknown service type on the first edge line
    textOf(<<StartMarker,
             words(<<fooBar, <<"b","a","z">>, <<"-", ">">>, awsS3, <<"b","u","c","k","e","t">>>>),
             EndMarker>>),
    \* the same line without markers
    words(<<fooBar, <<"b","a","z">>, <<"-", ">">>, awsS3, <<"b","u","c","k","e","t">>>>),
    \* an unknown service type as the target of the second edge line
    textOf(<<StartMarker,
             words(<<awsEc2, <<"w","e","b">>, <<"-", ">">>, awsRds, <<"D","b","_","1">>>>),
             words(<<awsRds, <<"D","b","_","1">>, <<"-", "-", ">">>, fooBar, <<"b","a","z">>>>),
             EndMarker>>),
    \* a line with four tokens
    textOf(<<StartMarker,
             words(<<awsEc2, <<"w","e","b">>, <<"-", ">">>, awsRds>>),
             EndMarker>>),
    \* no end marker
    textOf(<<StartMarker,
             words(<<awsEc2, <<"w","e","b">>, <<"-", ">">>, awsRds, <<"D","b","_","1">>>>)>>),
    \* markers out of order
    textOf(<<EndMarker,
             words(<<awsEc2, <<"w","e","b">>, <<"-", ">">>, awsRds, <<"D","b","_","1">>>>),
             StartMarker>>),
    \* an empty diagram
    textOf(<<StartMarker, EndMarker>>) }

----------------------------------------------------------------------------
(* Pipeline Orchestrator: sections 4.5 and 7 of the design *)

NoError == [stage |-> "none", kind |-> "none", line |-> 0]

NoResult == [status |-> "none", diagram |-> <<>>]

\* A request before any stage has run.
RequestFresh ==
    /\ reqGraph = <<>>
    /\ reqError = NoError
    /\ pendingTypes = {}
    /\ retrievalPartial = FALSE
    /\ retrievalCalls = 0
    /\ reasoningCalls = 0
    /\ analysisCall = "none"
    /\ verifyCall = "none"
    /\ verifyCalls = 0
    /\ correctedTexts = <<>>
    /\ verifyFeedback = NoParse
    /\ reqResult = NoResult
    /\ failedFrom = "none"

RequestIdle ==
    /\ reqOp = "Analyze"
    /\ reqText = <<>>
    /\ reqState = "Idle"
    /\ reqRisks = <<>>
    /\ RequestFresh

----------------------------------------------------------------------------
(* The canvas: the state of App, the handlers of Canvas, the node and       *)
(* connection components.  The node components hand the handlers the node's *)
(* {id, type}; nodes are told apart by their id.                            *)

NoNode == <<>>

DigitOf == <<"0", "1", "2", "3", "4", "5", "6", "7", "8", "9">>

RECURSIVE decimal(_)
\* The decimal digits of Date.now() inside a template literal.
decimal(n) ==
    IF n < 10 THEN <<DigitOf[n + 1]>>
    ELSE decimal(n \div 10) \o <<DigitOf[(n % 10) + 1]>>

\* The sidebar service that is dragged onto the canvas.
DropServices == {
    [id |-> <<"a","z","u","r","e","-","s","q","l">>,
     name |-> <<"S","Q","L"," ","D","a","t","a","b","a","s","e">>] }

\* monitor.getClientOffset() relative to the canvas rectangle, or null.
NoOffset == <<>>
DropOffsets == {<<50, 25>>}

newNodeTypedByName(service, time, x, y) ==
    [id |-> service.id \o <<"-">> \o decimal(time),
     type |-> service.name,
     label |-> service.name,
     x |-> x - 50,
     y |-> y - 25,
     width |-> 100,
     height |-> 50]

\* The node a drop creates.
newNode(service, time, x, y) ==
    [id |-> service.id \o <<"-">> \o decimal(time),
     type |-> service.id,
     label |-> service.name,
     x |-> x - 50,
     y |-> y - 25,
     width |-> 100,
     height |-> 50]

newNodeInfo(node) == [id |-> node.id, type |-> node.type]

newConnection(start, target, time) ==
    [id |-> <<"c","o","n","n","-">> \o decimal(time),
     from |-> start,
     to |-> target,
     type |-> "solid",
     color |-> "#6b7280"]

addNode(prev, node) == Append(prev, node)

updateNode(prev, id, updates) ==
    [i \in 1..Len(prev) |->
        IF prev[i].id = id
        THEN [f \in DOMAIN prev[i] |->
                 IF f \in DOMAIN updates THEN updates[f] ELSE prev[i][f]]
        ELSE prev[i]]

touchesFromOnly(conn, id) == conn.from.id = id

\* The connections deleteNode filters out.
touches(conn, id) == conn.from.id = id \/ conn.to.id = id

deleteNodeKeepsSelection(ns, cs, selected, id) ==
    [nodes |-> SelectSeq(ns, LAMBDA node : node.id # id),
     connections |-> SelectSeq(cs, LAMBDA conn : conn.from.id # id /\ conn.to.id # id),
     selectedNode |-> selected]

\* The state of App after deleteNode(id).
deleteNode(ns, cs, selected, id) ==
    [nodes |-> SelectSeq(ns, LAMBDA node : node.id # id),
     connections |-> SelectSeq(cs, LAMBDA conn : ~touches(conn, id)),
     selectedNode |-> IF selected = id THEN NoNode ELSE selected]

addConnection(prev, connection) == Append(prev, connection)

deleteConnection(prev, id) == SelectSeq(prev, LAMBDA conn : conn.id # id)

\* String.prototype.trim on the edited label.
trim(label) ==
    LET inked == {i \in 1..Len(label) : label[i] \notin Whitespace}
    IN  IF inked = {} THEN <<>>
        ELSE SubSeq(label, CHOOSE i \in inked : \A j \in inked : i <= j,
                           CHOOSE i \in inked : \A j \in inked : i >= j)

\* What is typed into the label input, where a node is moved to, resized to.
EditLabels == {<<"d","b"," ","1"," ">>, <<" ">>}
MovePositions == {[x |-> 30, y |-> 40]}
ResizeBoxes == {[width |-> 120, height |-> 60, x |-> 0, y |-> 0]}

Keys == {"Delete", "Escape", "Enter"}

CanvasIdle ==
    /\ mounted = FALSE
    /\ nodes = <<>>
    /\ connections = <<>>
    /\ selectedNode = NoNode
    /\ isConnecting = FALSE
    /\ connectionStart = NoNode
    /\ clock = 0
    /\ updateCount = 0
    /\ lastEvent = "none"
    /\ lastTarget = 0

----------------------------------------------------------------------------
(* The drag of a node: NodeComponent's mouse handlers, its effect, and the  *)
(* animation frames of the browser.  A render that follows a state change   *)
(* is committed, effect included, with the handler that caused it.          *)

NoFrame == 0

\* Where the node is when it is rendered first.
StartPos == [x |-> 10, y |-> 10]

\* clientX, clientY of the mouse events.
MousePoints == {[x |-> 20, y |-> 15], [x |-> 30, y |-> 15], [x |-> 30, y |-> 35]}

\* cancelAnimationFrame(id): the callback of that id, if it is pending, never runs.
cancelAnimationFrame(pending, id) == {f \in pending : f.id # id}

\* The callback handleMouseMove hands to requestAnimationFrame, with the
\* position it computes from the event and dragStart of its closure.
frameCallback(id, e, start, drag) ==
    [id |-> id, x |-> e.x - start.x, y |-> e.y - start.y, drag |-> drag]

DragIdle ==
    /\ dragOn = FALSE
    /\ nodePos = StartPos
    /\ isDragging = FALSE
    /\ dragStart = [x |-> 0, y |-> 0]
    /\ listening = FALSE
    /\ animationFrameRef = NoFrame
    /\ frames = {}
    /\ frameCount = 0
    /\ buttonDown = FALSE
    /\ dragCount = 0
    /\ lastDragEvent = "none"
    /\ pendingBefore = 0

----------------------------------------------------------------------------
(* The codec applied: serialize, parse, serialize again, parse again *)

InitCodec ==
    /\ \/ /\ origin = "built"
          /\ conns \in BuiltGraphs
          /\ text1 = <<>>
          /\ codecPc = "built"
       \/ /\ origin = "text"
          /\ conns = <<>>
          /\ text1 \in RawTexts
          /\ codecPc = "serialized"
    /\ parsed1 = NoParse
    /\ text2 = <<>>
    /\ parsed2 = NoParse
    /\ SearchIdle
    /\ RequestIdle
    /\ CanvasIdle
    /\ DragIdle

\* handleAskAI: serialize(connections)
Serialize ==
    /\ codecPc = "built"
    /\ text1' = serialize(conns)
    /\ codecPc' = "serialized"
    /\ UNCHANGED <<origin, conns, parsed1, text2, parsed2>>
    /\ UNCHANGED <<searchVars, requestVars, canvasVars, dragVars>>

Parse ==
    /\ codecPc = "serialized"
    /\ parsed1' = parse(text1)
    /\ codecPc' = "parsed"
    /\ UNCHANGED <<origin, conns, text1, text2, parsed2>>
    /\ UNCHANGED <<searchVars, requestVars, canvasVars, dragVars>>

\* Only a graph is serialized: a ParseError ends the run.
Reserialize ==
    /\ codecPc = "parsed"
    /\ parsed1.ok
    /\ text2' = serialize(parsed1.edges)
    /\ codecPc' = "reserialized"
    /\ UNCHANGED <<origin, conns, text1, parsed1, parsed2>>
    /\ UNCHANGED <<searchVars, requestVars, canvasVars, dragVars>>

Reparse ==
    /\ codecPc = "reserialized"
    /\ parsed2' = parse(text2)
    /\ codecPc' = "reparsed"
    /\ UNCHANGED <<origin, conns, text1, parsed1, text2>>
    /\ UNCHANGED <<searchVars, requestVars, canvasVars, dragVars>>

NextCodec == Serialize \/ Parse \/ Reserialize \/ Reparse

SpecCodec == InitCodec /\ [][NextCodec]_vars

----------------------------------------------------------------------------
(* The similarity search applied twice to one store, query and match_count *)

CodecIdle ==
    /\ origin = "text"
    /\ conns = <<>>
    /\ text1 = <<>>
    /\ parsed1 = NoParse
    /\ text2 = <<>>
    /\ parsed2 = NoParse
    /\ codecPc = "idle"

InitSearch ==
    /\ store \in [RuleIds -> Distances]
    /\ threshold = 0
    /\ limit = 0
    /\ matches = <<>>
    /\ threshold2 = 0
    /\ matches2 = <<>>
    /\ searchPc = "idle"
    /\ CodecIdle
    /\ RequestIdle
    /\ CanvasIdle
    /\ DragIdle

Search ==
    /\ searchPc = "idle"
    /\ \E t \in Thresholds, n \in Limits :
          /\ threshold' = t
          /\ limit' = n
          /\ matches' \in match_compliance_rules(store, t, n)
    /\ searchPc' = "searched"
    /\ UNCHANGED <<store, threshold2, matches2>>
    /\ UNCHANGED <<codecVars, requestVars, canvasVars, dragVars>>

SearchAgain ==
    /\ searchPc = "searched"
    /\ \E t \in Thresholds :
          /\ threshold2' = t
          /\ matches2' \in match_compliance_rules(store, t, limit)
    /\ searchPc' = "again"
    /\ UNCHANGED <<store, threshold, limit, matches>>
    /\ UNCHANGED <<codecVars, requestVars, canvasVars, dragVars>>

NextSearch == Search \/ SearchAgain

SpecSearch == InitSearch /\ [][NextSearch]_vars

----------------------------------------------------------------------------
(* Requests: Received -> Parsed -> Retrieved -> Analyzed -> [Verified] -> Completed *)

\* The diagram texts a request may carry: received texts and serialized canvases.
RequestTexts == RawTexts \cup {serialize(g) : g \in BuiltGraphs}

serviceTypes(edges) ==
    {edges[i].from.type : i \in 1..Len(edges)}
        \cup {edges[i].to.type : i \in 1..Len(edges)}

nodeIds(edges) ==
    {edges[i].from.id : i \in 1..Len(edges)}
        \cup {edges[i].to.id : i \in 1..Len(edges)}

Operations == {"Analyze", "Verify", "AnalyzeAndVerify"}

\* What the reasoning service may answer to an analysis request: risks that
\* name node ids of the graph, and an id that no diagram of the model has.
absentId == <<"g","h","o","s","t">>

RawRisks(edges) ==
    {[affectedNodeIds |-> S, flagged |-> FALSE] :
        S \in {T \in SUBSET (nodeIds(edges) \cup {absentId}) :
                  T # {} /\ Cardinality(T) <= MaxAffected}}

RiskResponses(edges) == SeqsUpTo(RawRisks(edges), MaxRisks)

\* Post-validation of the analysis response: a risk that references an id
\* absent from the graph is dropped, or kept with a flag and without that id.
validRisk(risk, ids) == risk.affectedNodeIds \subseteq ids

repairRiskKeepingIds(risk, ids) ==
    [affectedNodeIds |-> risk.affectedNodeIds, flagged |-> TRUE]

repairRisk(risk, ids) ==
    [affectedNodeIds |-> risk.affectedNodeIds \cap ids, flagged |-> TRUE]

postValidate(response, ids, policy) ==
    LET kept == IF policy = "drop"
                THEN SelectSeq(response, LAMBDA r : validRisk(r, ids))
                ELSE response
    IN  [i \in 1..Len(kept) |->
            IF validRisk(kept[i], ids) THEN kept[i] ELSE repairRisk(kept[i], ids)]

\* The risk lists a Verify request may be given.
GivenRiskLists ==
    {<<>>, <<[affectedNodeIds |-> {nodeWeb.id}, flagged |-> FALSE]>>}

\* What the reasoning service may return as the corrected diagram.
CorrectedTexts == {
    serialize(<<[from |-> nodeWeb, to |-> nodeDb, type |-> "dashed"]>>),
    textOf(<<StartMarker, EndMarker>>),
    textOf(<<StartMarker,
             words(<<awsEc2, <<"w","e","b">>, <<"-", ">">>, awsRds, <<"D","b","_","1">>>>)>>),
    textOf(<<StartMarker,
             words(<<awsEc2, <<"w","e","b">>, <<"-", ">">>, fooBar, <<"b","a","z">>>>),
             EndMarker>>) }

\* The texts of the requests that go through every operation.
PipelineTexts == RawTexts \cup {serialize(<<c>>) : c \in ConnDomain}

\* Analyze requests over every text.
InitRequest ==
    /\ reqOp = "Analyze"
    /\ reqText \in RequestTexts
    /\ reqState = "Received"
    /\ reqRisks = <<>>
    /\ RequestFresh
    /\ CodecIdle
    /\ SearchIdle
    /\ CanvasIdle
    /\ DragIdle

\* Requests of every operation.
InitPipeline ==
    /\ reqOp \in Operations
    /\ reqText \in PipelineTexts
    /\ reqState = "Received"
    /\ reqRisks \in (IF reqOp = "Verify" THEN GivenRiskLists ELSE {<<>>})
    /\ RequestFresh
    /\ CodecIdle
    /\ SearchIdle
    /\ CanvasIdle
    /\ DragIdle

StageFailure(stage, kind, line) == [stage |-> stage, kind |-> kind, line |-> line]

\* Codec.parse: a ParseError is returned to the caller, never retried.
ParseRequest ==
    /\ reqState = "Received"
    /\ LET p == parse(reqText) IN
       IF p.ok
       THEN /\ reqState' = "Parsed"
            /\ reqGraph' = p.edges
            /\ pendingTypes' = IF reqOp = "Verify" THEN {} ELSE serviceTypes(p.edges)
            /\ UNCHANGED <<reqError, failedFrom>>
       ELSE /\ reqState' = "Failed"
            /\ reqError' = StageFailure("parse", "ParseError", p.line)
            /\ failedFrom' = reqState
            /\ UNCHANGED <<reqGraph, pendingTypes>>
    /\ UNCHANGED <<reqOp, reqText, retrievalPartial, retrievalCalls, reasoningCalls,
                   reqRisks, analysisCall, verifyCall, verifyCalls, correctedTexts,
                   verifyFeedback, reqResult>>
    /\ UNCHANGED <<codecVars, searchVars, canvasVars, dragVars>>

\* One retrieval per distinct service type, in any order; a RetrievalError is
\* swallowed and the result flagged as partial.
RetrieveType ==
    /\ reqState = "Parsed"
    /\ reqOp # "Verify"
    /\ \E t \in pendingTypes, failed \in BOOLEAN :
          /\ pendingTypes' = pendingTypes \ {t}
          /\ retrievalPartial' = (retrievalPartial \/ failed)
    /\ retrievalCalls' = retrievalCalls + 1
    /\ UNCHANGED <<reqOp, reqText, reqState, reqGraph, reqError, reasoningCalls,
                   reqRisks, analysisCall, verifyCall, verifyCalls, correctedTexts,
                   verifyFeedback, reqResult, failedFrom>>
    /\ UNCHANGED <<codecVars, searchVars, canvasVars, dragVars>>

RetrievalDone ==
    /\ reqState = "Parsed"
    /\ reqOp # "Verify"
    /\ pendingTypes = {}
    /\ reqState' = "Retrieved"
    /\ UNCHANGED <<reqOp, reqText, reqGraph, reqError, pendingTypes, retrievalPartial,
                   retrievalCalls, reasoningCalls, reqRisks, analysisCall, verifyCall,
                   verifyCalls, correctedTexts, verifyFeedback, reqResult, failedFrom>>
    /\ UNCHANGED <<codecVars, searchVars, canvasVars, dragVars>>

\* The analysis stage invokes the reasoning service once.
StartAnalysis ==
    /\ reqState = "Retrieved"
    /\ analysisCall = "none"
    /\ analysisCall' = "inflight"
    /\ reasoningCalls' = reasoningCalls + 1
    /\ UNCHANGED <<reqOp, reqText, reqState, reqGraph, reqError, pendingTypes,
                   retrievalPartial, retrievalCalls, reqRisks, verifyCall, verifyCalls,
                   correctedTexts, verifyFeedback, reqResult, failedFrom>>
    /\ UNCHANGED <<codecVars, searchVars, canvasVars, dragVars>>

\* The analysis call ends: a failed call or an unparseable response fails the
\* stage; a structured response is post-validated into the risk list.
AnalyzeRisks ==
    /\ reqState = "Retrieved"
    /\ analysisCall = "inflight"
    /\ analysisCall' = "finished"
    /\ \E outcome \in {"ok", "ReasoningServiceError", "SchemaViolation"} :
          IF outcome = "ok"
          THEN /\ reqState' = "Analyzed"
               /\ \E response \in RiskResponses(reqGraph), policy \in {"drop", "flag"} :
                     reqRisks' = postValidate(response, nodeIds(reqGraph), policy)
               /\ UNCHANGED <<reqError, failedFrom>>
          ELSE /\ reqState' = "Failed"
               /\ reqError' = StageFailure("analysis", outcome, 0)
               /\ failedFrom' = reqState
               /\ UNCHANGED reqRisks
    /\ UNCHANGED <<reqOp, reqText, reqGraph, pendingTypes, retrievalPartial,
                   retrievalCalls, reasoningCalls, verifyCall, verifyCalls,
                   correctedTexts, verifyFeedback, reqResult>>
    /\ UNCHANGED <<codecVars, searchVars, canvasVars, dragVars>>

\* Analyze returns the risk list.
CompleteRequest ==
    /\ reqState = "Analyzed"
    /\ reqOp = "Analyze"
    /\ reqState' = "Completed"
    /\ reqResult' = [status |-> "risks", diagram |-> <<>>]
    /\ UNCHANGED <<reqOp, reqText, reqGraph, reqError, pendingTypes, retrievalPartial,
                   retrievalCalls, reasoningCalls, reqRisks, analysisCall, verifyCall,
                   verifyCalls, correctedTexts, verifyFeedback, failedFrom>>
    /\ UNCHANGED <<codecVars, searchVars, canvasVars, dragVars>>

NextRequest ==
    \/ ParseRequest
    \/ RetrieveType
    \/ RetrievalDone
    \/ StartAnalysis
    \/ AnalyzeRisks
    \/ CompleteRequest

SpecRequest == InitRequest /\ [][NextRequest]_vars

----------------------------------------------------------------------------
(* Verification Stage and AnalyzeAndVerify: sections 4.4, 4.5 and 7 of the design *)

\* AnalyzeAndVerify with no risk: verification is a no-op, the original
\* diagram text is returned.
ShortCircuit ==
    /\ reqState = "Analyzed"
    /\ reqOp = "AnalyzeAndVerify"
    /\ reqRisks = <<>>
    /\ reqState' = "Completed"
    /\ reqResult' = [status |-> "success", diagram |-> reqText]
    /\ UNCHANGED <<reqOp, reqText, reqGraph, reqError, pendingTypes, retrievalPartial,
                   retrievalCalls, reasoningCalls, reqRisks, analysisCall, verifyCall,
                   verifyCalls, correctedTexts, verifyFeedback, failedFrom>>
    /\ UNCHANGED <<codecVars, searchVars, canvasVars, dragVars>>

verifiesAlways(op, state, risks) ==
    \/ op = "Verify" /\ state = "Parsed"
    \/ op = "AnalyzeAndVerify" /\ state = "Analyzed"

verifiesEarly(op, state, risks) ==
    \/ op = "Verify" /\ state = "Parsed"
    \/ op = "AnalyzeAndVerify" /\ state = "Retrieved"
    \/ op = "AnalyzeAndVerify" /\ state = "Analyzed" /\ risks # <<>>

\* When the Verification Stage runs: Verify runs it on the parsed diagram and
\* the given risks, AnalyzeAndVerify on the output of Analyze when there are risks.
verifies(op, state, risks) ==
    \/ op = "Verify" /\ state = "Parsed"
    \/ op = "AnalyzeAndVerify" /\ state = "Analyzed" /\ risks # <<>>

\* The stage sends the serialized original diagram and the risk list.
StartVerification ==
    /\ verifies(reqOp, reqState, reqRisks)
    /\ verifyCall = "none"
    /\ verifyCall' = "inflight"
    /\ verifyCalls' = verifyCalls + 1
    /\ reasoningCalls' = reasoningCalls + 1
    /\ UNCHANGED <<reqOp, reqText, reqState, reqGraph, reqError, pendingTypes,
                   retrievalPartial, retrievalCalls, reqRisks, analysisCall,
                   correctedTexts, verifyFeedback, reqResult, failedFrom>>
    /\ UNCHANGED <<codecVars, searchVars, canvasVars, dragVars>>

\* The verification call ends: the service returns a corrected diagram, or the
\* call fails outright and the stage with it.
VerificationResponse ==
    /\ verifyCall = "inflight"
    /\ verifyCall' = "finished"
    /\ \E outcome \in {"ok", "ReasoningServiceError"} :
          IF outcome = "ok"
          THEN /\ reqState' = "Verified"
               /\ \E t \in CorrectedTexts : correctedTexts' = Append(correctedTexts, t)
               /\ UNCHANGED <<reqError, failedFrom>>
          ELSE /\ reqState' = "Failed"
               /\ reqError' = StageFailure("verification", outcome, 0)
               /\ failedFrom' = reqState
               /\ UNCHANGED correctedTexts
    /\ UNCHANGED <<reqOp, reqText, reqGraph, pendingTypes, retrievalPartial,
                   retrievalCalls, reasoningCalls, reqRisks, analysisCall, verifyCalls,
                   verifyFeedback, reqResult>>
    /\ UNCHANGED <<codecVars, searchVars, canvasVars, dragVars>>

lastCorrected == correctedTexts[Len(correctedTexts)]

\* The corrective follow-up is sent once.
retries(calls) == calls < 2

acceptsAnything(text) == TRUE

\* The corrected diagram is re-parsed through the Codec.
accepts(text) == parse(text).ok

\* The corrected diagram re-parses: it is returned.
CompleteVerified ==
    /\ reqState = "Verified"
    /\ verifyCall = "finished"
    /\ accepts(lastCorrected)
    /\ reqState' = "Completed"
    /\ reqResult' = [status |-> "success", diagram |-> lastCorrected]
    /\ UNCHANGED <<reqOp, reqText, reqGraph, reqError, pendingTypes, retrievalPartial,
                   retrievalCalls, reasoningCalls, reqRisks, analysisCall, verifyCall,
                   verifyCalls, correctedTexts, verifyFeedback, failedFrom>>
    /\ UNCHANGED <<codecVars, searchVars, canvasVars, dragVars>>

\* Re-parsing failed: the stage retries once, feeding the parse error back.
RetryVerification ==
    /\ reqState = "Verified"
    /\ verifyCall = "finished"
    /\ ~accepts(lastCorrected)
    /\ retries(verifyCalls)
    /\ verifyFeedback' = parse(lastCorrected)
    /\ verifyCall' = "inflight"
    /\ verifyCalls' = verifyCalls + 1
    /\ reasoningCalls' = reasoningCalls + 1
    /\ UNCHANGED <<reqOp, reqText, reqState, reqGraph, reqError, pendingTypes,
                   retrievalPartial, retrievalCalls, reqRisks, analysisCall,
                   correctedTexts, reqResult, failedFrom>>
    /\ UNCHANGED <<codecVars, searchVars, canvasVars, dragVars>>

\* Re-parsing failed a second time: the stage fails.
FailVerification ==
    /\ reqState = "Verified"
    /\ verifyCall = "finished"
    /\ ~accepts(lastCorrected)
    /\ ~retries(verifyCalls)
    /\ reqState' = "Failed"
    /\ reqError' = StageFailure("verification", "SchemaViolation", parse(lastCorrected).line)
    /\ failedFrom' = reqState
    /\ UNCHANGED <<reqOp, reqText, reqGraph, pendingTypes, retrievalPartial,
                   retrievalCalls, reasoningCalls, reqRisks, analysisCall, verifyCall,
                   verifyCalls, correctedTexts, verifyFeedback, reqResult>>
    /\ UNCHANGED <<codecVars, searchVars, canvasVars, dragVars>>

NextPipeline ==
    \/ NextRequest
    \/ ShortCircuit
    \/ StartVerification
    \/ VerificationResponse
    \/ CompleteVerified
    \/ RetryVerification
    \/ FailVerification

SpecPipeline == InitPipeline /\ [][NextPipeline]_vars

----------------------------------------------------------------------------
(* The canvas in use: drops, clicks, keys, deletions, edits *)

InitCanvas ==
    /\ mounted = TRUE
    /\ nodes = <<>>
    /\ connections = <<>>
    /\ selectedNode = NoNode
    /\ isConnecting = FALSE
    /\ connectionStart = NoNode
    /\ clock = 1
    /\ updateCount = 0
    /\ lastEvent = "none"
    /\ lastTarget = 0
    /\ DragIdle
    /\ CodecIdle
    /\ SearchIdle
    /\ RequestIdle

\* Date.now() moves on.
Tick ==
    /\ mounted
    /\ clock < MaxClock
    /\ clock' = clock + 1
    /\ lastEvent' = "tick"
    /\ lastTarget' = 0
    /\ UNCHANGED <<mounted, nodes, connections, selectedNode, isConnecting,
                   connectionStart, updateCount>>
    /\ UNCHANGED <<codecVars, searchVars, requestVars, dragVars>>

\* useDrop's drop: nothing without a client offset, else onAddNode(newNode).
Drop ==
    /\ mounted
    /\ Len(nodes) < MaxNodes
    /\ \E service \in DropServices, offset \in DropOffsets \cup {NoOffset} :
          IF offset = NoOffset
          THEN UNCHANGED nodes
          ELSE nodes' = addNode(nodes, newNode(service, clock, offset[1], offset[2]))
    /\ lastEvent' = "drop"
    /\ lastTarget' = 0
    /\ UNCHANGED <<mounted, connections, selectedNode, isConnecting, connectionStart,
                   clock, updateCount>>
    /\ UNCHANGED <<codecVars, searchVars, requestVars, dragVars>>

handleNodeClickAnyTarget(nodeInfo) ==
    IF isConnecting
    THEN /\ IF connectionStart # NoNode
            THEN connections' =
                     addConnection(connections,
                                   newConnection(connectionStart[1], nodeInfo, clock))
            ELSE UNCHANGED connections
         /\ isConnecting' = FALSE
         /\ connectionStart' = NoNode
         /\ UNCHANGED selectedNode
    ELSE /\ selectedNode' = nodeInfo.id
         /\ UNCHANGED <<connections, isConnecting, connectionStart>>

\* handleNodeClick: in connection mode the click completes or cancels the
\* pending connection, otherwise it selects the node.
handleNodeClick(nodeInfo) ==
    IF isConnecting
    THEN /\ IF connectionStart # NoNode /\ connectionStart[1].id # nodeInfo.id
            THEN connections' =
                     addConnection(connections,
                                   newConnection(connectionStart[1], nodeInfo, clock))
            ELSE UNCHANGED connections
         /\ isConnecting' = FALSE
         /\ connectionStart' = NoNode
         /\ UNCHANGED selectedNode
    ELSE /\ selectedNode' = nodeInfo.id
         /\ UNCHANGED <<connections, isConnecting, connectionStart>>

\* A click on the i-th node of the canvas.
ClickNode(i) ==
    /\ mounted
    /\ (isConnecting /\ connectionStart # NoNode
            /\ connectionStart[1].id # nodes[i].id) => Len(connections) < MaxCanvasConns
    /\ handleNodeClick(newNodeInfo(nodes[i]))
    /\ lastEvent' = "click"
    /\ lastTarget' = i
    /\ UNCHANGED <<mounted, nodes, clock, updateCount>>
    /\ UNCHANGED <<codecVars, searchVars, requestVars, dragVars>>

startConnection(nodeInfo) ==
    /\ isConnecting' = TRUE
    /\ connectionStart' = <<nodeInfo>>

\* A right click on the i-th node: mouse down with button 2, context menu.
RightClickNode(i) ==
    /\ mounted
    /\ startConnection(newNodeInfo(nodes[i]))
    /\ lastEvent' = "rightclick"
    /\ lastTarget' = i
    /\ UNCHANGED <<mounted, nodes, connections, selectedNode, clock, updateCount>>
    /\ UNCHANGED <<codecVars, searchVars, requestVars, dragVars>>

\* handleCanvasClick with the canvas itself as target.
ClickCanvas ==
    /\ mounted
    /\ selectedNode' = NoNode
    /\ IF isConnecting
       THEN isConnecting' = FALSE /\ connectionStart' = NoNode
       ELSE UNCHANGED <<isConnecting, connectionStart>>
    /\ lastEvent' = "canvasclick"
    /\ lastTarget' = 0
    /\ UNCHANGED <<mounted, nodes, connections, clock, updateCount>>
    /\ UNCHANGED <<codecVars, searchVars, requestVars, dragVars>>

\* onDeleteNode(id), as App's deleteNode sets the three states.
onDeleteNode(id) ==
    LET after == deleteNode(nodes, connections, selectedNode, id) IN
    /\ nodes' = after.nodes
    /\ connections' = after.connections
    /\ selectedNode' = after.selectedNode

handleKeyDownEscapeKeepsSelection(key) ==
    CASE key = "Delete" /\ selectedNode # NoNode ->
            /\ onDeleteNode(selectedNode)
            /\ UNCHANGED <<isConnecting, connectionStart>>
      [] key = "Escape" ->
            /\ isConnecting' = FALSE
            /\ connectionStart' = NoNode
            /\ UNCHANGED <<nodes, connections, selectedNode>>
      [] OTHER ->
            UNCHANGED <<nodes, connections, selectedNode, isConnecting, connectionStart>>

handleKeyDown(key) ==
    CASE key = "Delete" /\ selectedNode # NoNode ->
            /\ onDeleteNode(selectedNode)
            /\ UNCHANGED <<isConnecting, connectionStart>>
      [] key = "Escape" ->
            /\ isConnecting' = FALSE
            /\ connectionStart' = NoNode
            /\ selectedNode' = NoNode
            /\ UNCHANGED <<nodes, connections>>
      [] OTHER ->
            UNCHANGED <<nodes, connections, selectedNode, isConnecting, connectionStart>>

\* A key pressed on the canvas.
KeyDown ==
    /\ mounted
    /\ \E key \in Keys :
          /\ handleKeyDown(key)
          /\ lastEvent' = key
    /\ lastTarget' = 0
    /\ UNCHANGED <<mounted, clock, updateCount>>
    /\ UNCHANGED <<codecVars, searchVars, requestVars, dragVars>>

\* The delete button of the i-th node, rendered while the node is selected.
ClickDeleteButton(i) ==
    /\ mounted
    /\ selectedNode = nodes[i].id
    /\ onDeleteNode(nodes[i].id)
    /\ lastEvent' = "deletebutton"
    /\ lastTarget' = i
    /\ UNCHANGED <<mounted, isConnecting, connectionStart, clock, updateCount>>
    /\ UNCHANGED <<codecVars, searchVars, requestVars, dragVars>>

\* ConnectionComponent draws a connection only when both of its nodes are found.
isDrawn(connection) ==
    /\ \E i \in 1..Len(nodes) : nodes[i].id = connection.from.id
    /\ \E i \in 1..Len(nodes) : nodes[i].id = connection.to.id

\* A double click on the line of the j-th connection.
DoubleClickConnection(j) ==
    /\ mounted
    /\ isDrawn(connections[j])
    /\ connections' = deleteConnection(connections, connections[j].id)
    /\ lastEvent' = "deleteconnection"
    /\ lastTarget' = j
    /\ UNCHANGED <<mounted, nodes, selectedNode, isConnecting, connectionStart,
                   clock, updateCount>>
    /\ UNCHANGED <<codecVars, searchVars, requestVars, dragVars>>

\* The Clear Canvas button.
clearCanvas ==
    /\ mounted
    /\ nodes' = <<>>
    /\ connections' = <<>>
    /\ selectedNode' = NoNode
    /\ lastEvent' = "clear"
    /\ lastTarget' = 0
    /\ UNCHANGED <<mounted, isConnecting, connectionStart, clock, updateCount>>
    /\ UNCHANGED <<codecVars, searchVars, requestVars, dragVars>>

\* onUpdate(node.id, updates) of the i-th node.
onUpdateNode(i, updates, event) ==
    /\ mounted
    /\ updateCount < MaxUpdates
    /\ updateCount' = updateCount + 1
    /\ nodes' = updateNode(nodes, nodes[i].id, updates)
    /\ lastEvent' = event
    /\ lastTarget' = i
    /\ UNCHANGED <<mounted, connections, selectedNode, isConnecting, connectionStart,
                   clock>>
    /\ UNCHANGED <<codecVars, searchVars, requestVars, dragVars>>

\* A drag of the i-th node ends.
MoveNode(i) ==
    \E position \in MovePositions : onUpdateNode(i, position, "move")

\* A resize of the i-th node ends.
ResizeNode(i) ==
    \E box \in ResizeBoxes : onUpdateNode(i, box, "resize")

\* handleLabelSubmit of the i-th node: a blank label is not submitted.
RelabelNode(i) ==
    \E editLabel \in EditLabels :
        /\ trim(editLabel) # <<>>
        /\ onUpdateNode(i, [label |-> trim(editLabel)], "relabel")

NextCanvas ==
    \/ Tick
    \/ Drop
    \/ \E i \in 1..Len(nodes) : ClickNode(i)
    \/ \E i \in 1..Len(nodes) : RightClickNode(i)
    \/ ClickCanvas
    \/ KeyDown
    \/ \E i \in 1..Len(nodes) : ClickDeleteButton(i)
    \/ \E j \in 1..Len(connections) : DoubleClickConnection(j)
    \/ clearCanvas
    \/ \E i \in 1..Len(nodes) : MoveNode(i)
    \/ \E i \in 1..Len(nodes) : ResizeNode(i)
    \/ \E i \in 1..Len(nodes) : RelabelNode(i)

SpecCanvas == InitCanvas /\ [][NextCanvas]_vars

----------------------------------------------------------------------------
(* The drag of a node in use: mouse down, moves, frames, mouse up *)

InitDrag ==
    /\ dragOn = TRUE
    /\ nodePos = StartPos
    /\ isDragging = FALSE
    /\ dragStart = [x |-> 0, y |-> 0]
    /\ listening = FALSE
    /\ animationFrameRef = NoFrame
    /\ frames = {}
    /\ frameCount = 0
    /\ buttonDown = FALSE
    /\ dragCount = 0
    /\ lastDragEvent = "none"
    /\ pendingBefore = 0
    /\ CodecIdle
    /\ SearchIdle
    /\ RequestIdle
    /\ CanvasIdle

\* The effect of a committed render: the cleanup of the effect before it takes
\* the listeners off and cancels the pending frame, then the listeners are put
\* on while isDragging.
effectCleanup(pending) ==
    IF listening /\ animationFrameRef # NoFrame
    THEN cancelAnimationFrame(pending, animationFrameRef)
    ELSE pending

refAfterCleanup(ref) == IF listening THEN NoFrame ELSE ref

\* handleMouseDown with the left button, and the render it causes.
handleMouseDown(e) ==
    /\ isDragging' = TRUE
    /\ dragStart' = [x |-> e.x - nodePos.x, y |-> e.y - nodePos.y]
    /\ frames' = effectCleanup(frames)
    /\ animationFrameRef' = refAfterCleanup(animationFrameRef)
    /\ listening' = TRUE

MouseDown ==
    /\ dragOn
    /\ ~buttonDown
    /\ dragCount < MaxDrags
    /\ \E e \in MousePoints : handleMouseDown(e)
    /\ buttonDown' = TRUE
    /\ dragCount' = dragCount + 1
    /\ lastDragEvent' = "down"
    /\ pendingBefore' = Cardinality(frames)
    /\ UNCHANGED <<dragOn, nodePos, frameCount>>
    /\ UNCHANGED <<codecVars, searchVars, requestVars, canvasVars>>

handleMouseMoveNoCancel(e) ==
    IF isDragging
    THEN /\ frames' = frames \cup {frameCallback(frameCount + 1, e, dragStart, dragCount)}
         /\ animationFrameRef' = frameCount + 1
         /\ frameCount' = frameCount + 1
    ELSE UNCHANGED <<frames, animationFrameRef, frameCount>>

\* handleMouseMove: the pending frame is cancelled and a new one requested.
handleMouseMove(e) ==
    IF isDragging
    THEN /\ frames' =
                (IF animationFrameRef # NoFrame
                 THEN cancelAnimationFrame(frames, animationFrameRef)
                 ELSE frames)
                    \cup {frameCallback(frameCount + 1, e, dragStart, dragCount)}
         /\ animationFrameRef' = frameCount + 1
         /\ frameCount' = frameCount + 1
    ELSE UNCHANGED <<frames, animationFrameRef, frameCount>>

\* A mousemove on document while the listeners are on.
MouseMove ==
    /\ dragOn
    /\ listening
    /\ frameCount < MaxFrames
    /\ \E e \in MousePoints : handleMouseMove(e)
    /\ lastDragEvent' = "move"
    /\ pendingBefore' = Cardinality(frames)
    /\ UNCHANGED <<dragOn, nodePos, isDragging, dragStart, listening, buttonDown,
                   dragCount>>
    /\ UNCHANGED <<codecVars, searchVars, requestVars, canvasVars>>

\* The browser runs a pending callback: onUpdate sets the node's position, App
\* renders again with a new onUpdate, and the effect is cleaned up and run anew.
AnimationFrame ==
    /\ dragOn
    /\ \E f \in frames :
          /\ nodePos' = [x |-> f.x, y |-> f.y]
          /\ frames' = effectCleanup(frames \ {f})
    /\ animationFrameRef' = refAfterCleanup(animationFrameRef)
    /\ listening' = isDragging
    /\ lastDragEvent' = "frame"
    /\ pendingBefore' = Cardinality(frames)
    /\ UNCHANGED <<dragOn, isDragging, dragStart, frameCount, buttonDown, dragCount>>
    /\ UNCHANGED <<codecVars, searchVars, requestVars, canvasVars>>

\* handleMouseUp, and the render it causes.
handleMouseUp ==
    /\ isDragging' = FALSE
    /\ frames' = IF animationFrameRef # NoFrame
                 THEN cancelAnimationFrame(frames, animationFrameRef)
                 ELSE frames
    /\ animationFrameRef' = NoFrame
    /\ listening' = FALSE

\* The button is released: a mouseup on document.
MouseUp ==
    /\ dragOn
    /\ buttonDown
    /\ IF listening
       THEN handleMouseUp
       ELSE UNCHANGED <<isDragging, frames, animationFrameRef, listening>>
    /\ buttonDown' = FALSE
    /\ lastDragEvent' = "up"
    /\ pendingBefore' = Cardinality(frames)
    /\ UNCHANGED <<dragOn, nodePos, dragStart, frameCount, dragCount>>
    /\ UNCHANGED <<codecVars, searchVars, requestVars, canvasVars>>

\* App renders again for another reason: onUpdate is a new function, so the
\* effect is cleaned up and run anew.
Rerender ==
    /\ dragOn
    /\ frames' = effectCleanup(frames)
    /\ animationFrameRef' = refAfterCleanup(animationFrameRef)
    /\ listening' = isDragging
    /\ lastDragEvent' = "render"
    /\ pendingBefore' = Cardinality(frames)
    /\ UNCHANGED <<dragOn, nodePos, isDragging, dragStart, frameCount, buttonDown,
                   dragCount>>
    /\ UNCHANGED <<codecVars, searchVars, requestVars, canvasVars>>

NextDrag == MouseDown \/ MouseMove \/ AnimationFrame \/ MouseUp \/ Rerender

SpecDrag == InitDrag /\ [][NextDrag]_vars

----------------------------------------------------------------------------
(* Everything together: a run is one use of the codec, of the search, of a  *)
(* request, of the canvas or of a drag                                      *)

Init == InitCodec \/ InitSearch \/ InitRequest \/ InitPipeline \/ InitCanvas \/ InitDrag

Next == NextCodec \/ NextSearch \/ NextPipeline \/ NextCanvas \/ NextDrag

Spec == Init /\ [][Next]_vars

----------------------------------------------------------------------------
(* Properties of the codec *)

BuiltSerialized == origin = "built" /\ codecPc # "built"

isAllowedId(id) == \A i \in 1..Len(id) : id[i] \in AllowedIdChars

isCleanGraph(list) ==
    \A i \in 1..Len(list) :
        isAllowedId(list[i].from.id) /\ isAllowedId(list[i].to.id)

\* C1: for every list of connections, the text serialize returns has
\* `@startdiagram` as its first line, `@enddiagram` as its last line and, in
\* between, exactly one line per connection, in the order of the list.
C1_SerializeLineStructure ==
    BuiltSerialized =>
        LET ls == splitLines(text1) IN
        /\ Len(ls) = Len(conns) + 2
        /\ ls[1] = StartMarker
        /\ ls[Len(ls)] = EndMarker
        /\ \A i \in 1..Len(conns) : ls[i + 1] = connLine(conns[i])

\* The connector symbols as the format documents them.
symbolOfKind(kind) ==
    CASE kind = "solid" -> <<"-", ">">>
      [] kind = "dashed" -> <<"-", "-", ">">>
      [] kind = "dotted" -> <<".", ".", ">">>

\* C2: the three connector kinds have three different symbols; in the text
\* serialize writes, the connector token of a connection's line is `->` for
\* solid, `-->` for dashed, `..>` for dotted, and `->` when no kind is set.
C2_ConnectorSymbols ==
    /\ \A k1, k2 \in ConnectorKinds :
          getConnectorSymbol(k1) = getConnectorSymbol(k2) => k1 = k2
    /\ (BuiltSerialized /\ isCleanGraph(conns)) =>
          \A i \in 1..Len(conns) :
              LET toks == tokenize(splitLines(text1)[i + 1])
                  kind == IF conns[i].type = "undefined" THEN "solid"
                          ELSE conns[i].type
              IN Len(toks) = 5 /\ toks[3] = symbolOfKind(kind)

C2_Witness ==
    /\ BuiltSerialized
    /\ isCleanGraph(conns)
    /\ \E i, j \in 1..Len(conns) :
          conns[i].type = "dashed" /\ conns[j].type = "undefined"

\* C3: every node id in the text serialize writes consists of characters of
\* [a-zA-Z0-9_-] only: each line between the markers has five tokens, and the
\* two id tokens have no other character.
C3_EmittedIdsSanitized ==
    BuiltSerialized =>
        LET ls == splitLines(text1) IN
        \A j \in 2..(Len(ls) - 1) :
            LET toks == tokenize(ls[j]) IN
            Len(toks) = 5 /\ isAllowedId(toks[2]) /\ isAllowedId(toks[5])

\* C4: for a graph g produced by a valid parse, parse(serialize(g)) succeeds
\* and yields the same edges (types, ids, connector kind) in the same order.
C4_RoundTrip ==
    (codecPc = "reparsed" /\ parsed1.ok) =>
        parsed2.ok /\ parsed2.edges = parsed1.edges

C4_Witness ==
    /\ codecPc = "reparsed"
    /\ parsed1.ok
    /\ Len(parsed1.edges) >= 2
    /\ \E i \in 1..Len(parsed1.edges) : parsed1.edges[i].type = "dashed"
    /\ \E i \in 1..Len(parsed1.edges) :
          parsed1.edges[i].from.id # parsed1.edges[i].to.id

\* C5: for a graph g built directly, serialize(parse(serialize(g))) is
\* defined (the parse succeeds) and is the same text as serialize(g).
C5_SerializeIdempotent ==
    (origin = "built" /\ codecPc \in {"parsed", "reserialized", "reparsed"}) =>
        /\ parsed1.ok
        /\ codecPc # "parsed" => text2 = text1

----------------------------------------------------------------------------
(* Properties of the similarity search *)

\* The similarity of a stored rule to the query: 1 minus its cosine distance.
similarityOfRule(id) == 1 - store[id][1]

\* C6: the matches of a search come in non-increasing order of similarity.
C6_OrderedBySimilarity ==
    searchPc \in {"searched", "again"} =>
        \A i, j \in 1..Len(matches) :
            i < j => matches[i].similarity >= matches[j].similarity

C6_Witness ==
    /\ searchPc \in {"searched", "again"}
    /\ Len(matches) >= 2
    /\ matches[1].similarity > matches[Len(matches)].similarity

\* C7: a search returns at most match_count rows, each of similarity strictly
\* above the threshold; a rule whose similarity equals the threshold is not
\* returned.
C7_LimitAndStrictThreshold ==
    searchPc \in {"searched", "again"} =>
        /\ Len(matches) <= limit
        /\ \A i \in 1..Len(matches) :
              /\ matches[i].similarity > threshold
              /\ store[matches[i].id] # NULL
              /\ similarityOfRule(matches[i].id) # threshold

C7_Witness ==
    /\ searchPc \in {"searched", "again"}
    /\ Len(matches) = limit
    /\ limit >= 1
    /\ \E id \in RuleIds : store[id] # NULL /\ similarityOfRule(id) = threshold
    /\ Cardinality({id \in RuleIds : store[id] # NULL /\ similarityOfRule(id) > threshold})
          > limit

\* C8: for one store, query and match_count, a search with a higher threshold
\* returns no more rows than a search with a lower one.
C8_ThresholdMonotone ==
    (searchPc = "again" /\ threshold <= threshold2) =>
        Len(matches2) <= Len(matches)

C8_Witness ==
    /\ searchPc = "again"
    /\ threshold < threshold2
    /\ 0 < Len(matches2)
    /\ Len(matches2) < Len(matches)

\* C9: two searches with the same store, query, threshold and match_count
\* return the same rows in the same order, rows of equal similarity ordered by
\* rule id.
C9_DeterministicOnTies ==
    /\ searchPc \in {"searched", "again"} =>
          \A i, j \in 1..Len(matches) :
              (i < j /\ matches[i].similarity = matches[j].similarity) =>
                  matches[i].id < matches[j].id
    /\ (searchPc = "again" /\ threshold2 = threshold) => matches2 = matches

----------------------------------------------------------------------------
(* Properties of a request *)

\* The lines of a text that have five tokens and name a service type the
\* catalog does not list.
unknownTypeLines(text) ==
    LET ls == splitLines(text) IN
    {j \in 1..Len(ls) :
        LET toks == tokenize(ls[j]) IN
        Len(toks) = 5 /\ (toks[1] \notin cloudServices \/ toks[4] \notin cloudServices)}

\* The lines before line j are a start marker followed by five-token lines,
\* blank lines apart.
wellFormedBefore(text, j) ==
    LET ls == splitLines(text)
        nonBlank == {i \in 1..(j - 1) : tokenize(ls[i]) # <<>>}
    IN /\ nonBlank # {}
       /\ \A i \in nonBlank :
             IF \A k \in nonBlank : i <= k
             THEN tokenize(ls[i]) = <<StartMarker>>
             ELSE Len(tokenize(ls[i])) = 5

\* C10: a request whose diagram has an edge line naming a service type that is
\* not in the catalog fails in the parse stage with a ParseError citing that
\* line (the first such line, when the text before it is well formed); no graph
\* is produced from it, and no retrieval or reasoning call is issued.
C10_UnknownTypeFailsParse ==
    (reqState \notin {"Idle", "Received"} /\ unknownTypeLines(reqText) # {}) =>
        /\ reqState = "Failed"
        /\ reqError.stage = "parse"
        /\ reqError.kind = "ParseError"
        /\ \E j \in unknownTypeLines(reqText) :
              /\ \A k \in unknownTypeLines(reqText) : j <= k
              /\ reqError.line >= 1
              /\ reqError.line <= j
              /\ wellFormedBefore(reqText, j) => reqError.line = j
        /\ reqGraph = <<>>
        /\ retrievalCalls = 0
        /\ reasoningCalls = 0

C10_Witness ==
    /\ reqState = "Failed"
    /\ unknownTypeLines(reqText) = {3}
    /\ wellFormedBefore(reqText, 3)
    /\ reqError.line = 3

----------------------------------------------------------------------------
(* Properties of the pipeline *)

zeroRisks ==
    reqOp = "AnalyzeAndVerify" /\ reqState = "Analyzed" /\ reqRisks = <<>>

\* C11: when the Analyze step of AnalyzeAndVerify yields zero risks, the request
\* can complete, its only step is to complete successfully with the original
\* diagram text as the result, and no verification call is ever issued for it.
C11_ZeroRisksShortCircuit ==
    /\ [](zeroRisks => ENABLED ShortCircuit)
    /\ [][zeroRisks =>
            /\ reqState' = "Completed"
            /\ reqResult' = [status |-> "success", diagram |-> reqText]
            /\ verifyCalls' = 0
            /\ verifyCall' = "none"
            /\ correctedTexts' = <<>>]_vars
    /\ []((reqOp = "AnalyzeAndVerify" /\ reqState = "Completed" /\ reqRisks = <<>>) =>
            /\ reqResult = [status |-> "success", diagram |-> reqText]
            /\ verifyCalls = 0
            /\ reasoningCalls = 1)

C11_Witness ==
    /\ reqOp = "AnalyzeAndVerify"
    /\ reqState = "Completed"
    /\ reqRisks = <<>>
    /\ reqGraph # <<>>
    /\ reqResult.diagram = reqText
    /\ verifyCalls = 0

isTerminal(state) == state \in {"Completed", "Failed"}

\* C12: a corrected diagram that fails to re-parse is answered by exactly one
\* corrective retry, which carries the parse error of that diagram; a second
\* diagram that fails to re-parse fails the stage; and a diagram returned as a
\* successful result always parses.
C12_VerificationRetry ==
    /\ verifyCalls <= 2
    /\ Len(correctedTexts) <= verifyCalls
    /\ verifyCalls = 2 =>
          /\ ~parse(correctedTexts[1]).ok
          /\ verifyFeedback = parse(correctedTexts[1])
          /\ verifyFeedback.line >= 1
    /\ verifyCalls < 2 => verifyFeedback = NoParse
    /\ (isTerminal(reqState) /\ Len(correctedTexts) >= 1
            /\ ~parse(correctedTexts[1]).ok) => verifyCalls = 2
    /\ (isTerminal(reqState) /\ Len(correctedTexts) = 2
            /\ ~parse(correctedTexts[2]).ok) =>
          /\ reqState = "Failed"
          /\ reqError.stage = "verification"
          /\ reqResult = NoResult
    /\ (reqState = "Completed" /\ reqResult.status = "success") =>
          parse(reqResult.diagram).ok
    /\ reqState = "Failed" => reqResult = NoResult

C12_Witness ==
    /\ reqState = "Failed"
    /\ failedFrom = "Verified"
    /\ verifyCalls = 2
    /\ Len(correctedTexts) = 2
    /\ ~parse(correctedTexts[1]).ok
    /\ ~parse(correctedTexts[2]).ok
    /\ verifyFeedback = parse(correctedTexts[1])

successors(op, state) ==
    CASE state = "Received" -> {"Parsed"}
      [] state = "Parsed" -> IF op = "Verify" THEN {"Verified"} ELSE {"Retrieved"}
      [] state = "Retrieved" -> {"Analyzed"}
      [] state = "Analyzed" -> {"Verified", "Completed"}
      [] state = "Verified" -> {"Completed"}
      [] OTHER -> {}

----------------------------------------------------------------------------
(* Properties of the canvas *)

nodeIdsOnCanvas == {nodes[i].id : i \in 1..Len(nodes)}

\* C15: a right click on a node A followed by a click on a different node B
\* appends exactly one connection, from A to B and solid, to the connection
\* list and ends connection mode; the connections there were stay as they
\* were and the selection is not changed by the click.
C15_ConnectAppendsOneSolid ==
    [][(/\ lastEvent = "rightclick"
        /\ lastEvent' = "click"
        /\ lastTarget' # lastTarget)
       => /\ Len(connections') = Len(connections) + 1
          /\ SubSeq(connections', 1, Len(connections)) = connections
          /\ connections'[Len(connections')].from = newNodeInfo(nodes[lastTarget])
          /\ connections'[Len(connections')].to = newNodeInfo(nodes[lastTarget'])
          /\ connections'[Len(connections')].type = "solid"
          /\ ~isConnecting'
          /\ connectionStart' = NoNode
          /\ selectedNode' = selectedNode]_vars

\* C16: after Escape is pressed, in any state, connection mode is off, the
\* pending connection start is cleared and no node is selected, and the node
\* list and the connection list are what they were.
C16_EscapeCancels ==
    [][lastEvent' = "Escape"
       => /\ ~isConnecting'
          /\ connectionStart' = NoNode
          /\ selectedNode' = NoNode
          /\ nodes' = nodes
          /\ connections' = connections]_vars

\* Escape pressed on a diagram with nodes and a connection.
C16_Witness ==
    /\ lastEvent = "Escape"
    /\ Len(nodes) >= 2
    /\ connections # <<>>

interiorLines(text) ==
    LET all == splitLines(text)
    IN  SubSeq(all, 2, Len(all) - 1)

\* C17: in every diagram state the canvas operations reach, each interior line
\* of serialize's output has exactly five whitespace-separated tokens, and the
\* two service-type tokens are ids of services of the sidebar catalog.
C17_CanvasLinesWellFormed ==
    mounted =>
        LET body == interiorLines(serialize(connections))
        IN  /\ Len(body) = Len(connections)
            /\ \A k \in 1..Len(body) :
                  LET cells == tokenize(body[k])
                  IN  /\ Len(cells) = 5
                      /\ cells[1] \in cloudServices
                      /\ cells[4] \in cloudServices

\* Two connections serialized, one of them left without its nodes, after a
\* node was moved, resized or relabelled.
C17_Witness ==
    /\ mounted
    /\ Len(connections) = 2
    /\ \E j \in 1..Len(connections) : ~isDrawn(connections[j])
    /\ updateCount > 0

\* C18: no two nodes of the node list have the same id, whatever services were
\* dropped and whenever, two drops of one service at one clock value included.
C18_UniqueNodeIds ==
    \A i, j \in 1..Len(nodes) : i # j => nodes[i].id # nodes[j].id

\* What deleteNode(id) has to leave: the nodes of another id, the connections
\* with neither endpoint of that id, each as it was and in the order it was in.
keptNodes(id) ==
    LET kept == {i \in 1..Len(nodes) : nodes[i].id # id}
    IN  [k \in 1..Cardinality(kept) |-> nodes[nth(kept, k)]]

keptConnections(id) ==
    LET kept == {j \in 1..Len(connections) :
                    connections[j].from.id # id /\ connections[j].to.id # id}
    IN  [k \in 1..Cardinality(kept) |-> connections[nth(kept, k)]]

selectionAfter(id) == IF selectedNode = id THEN NoNode ELSE selectedNode

\* C19: deleteNode(id) removes the node of that id and every connection
\* with that node as its from or to endpoint, and clears the selection exactly
\* when that node was the selected one; the other nodes and the connections not
\* touching it stay, unchanged and in the same relative order. Stated of
\* deleteNode in every state of the canvas and of the steps that call it, the
\* Delete key and the delete button.
C19_DeleteNodeContract ==
    /\ [](\A id \in nodeIdsOnCanvas \cup {absentId} :
            LET after == deleteNode(nodes, connections, selectedNode, id)
            IN  /\ after.nodes = keptNodes(id)
                /\ after.connections = keptConnections(id)
                /\ after.selectedNode = selectionAfter(id))
    /\ [][(lastEvent' = "deletebutton" \/ (lastEvent' = "Delete" /\ selectedNode # NoNode))
          => LET id == IF lastEvent' = "Delete" THEN selectedNode
                       ELSE nodes[lastTarget'].id
             IN  /\ nodes' = keptNodes(id)
                 /\ connections' = keptConnections(id)
                 /\ selectedNode' = selectionAfter(id)
                 /\ selectedNode' = NoNode]_vars

\* The selected node deleted by its button: two nodes of other ids and the
\* connection between them stay.
C19_Witness ==
    /\ lastEvent = "deletebutton"
    /\ Len(nodes) = 2
    /\ nodes[1].id # nodes[2].id
    /\ Len(connections) = 1
    /\ isDrawn(connections[1])
    /\ selectedNode = NoNode

\* C20: every connection of the connection list has both endpoints among the
\* nodes of the node list, after any canvas operations; deleting the node a
\* pending connection was started from leads to no connection to or from it.
C20_EndpointsAreNodes ==
    \A j \in 1..Len(connections) :
        /\ connections[j].from.id \in nodeIdsOnCanvas
        /\ connections[j].to.id \in nodeIdsOnCanvas

\* C21: the selected node is none or the id of a node of the node list, after
\* any canvas operations; deleting the selected node and clearing the canvas
\* leave no node selected.
C21_SelectionIsANode ==
    /\ [](selectedNode = NoNode \/ selectedNode \in nodeIdsOnCanvas)
    /\ [][(\/ lastEvent' = "clear"
           \/ lastEvent' = "deletebutton"
           \/ lastEvent' = "Delete" /\ selectedNode # NoNode)
          => selectedNode' = NoNode]_vars

\* The selected node deleted by its button while another node stays.
C21_Witness ==
    /\ lastEvent = "deletebutton"
    /\ nodes # <<>>
    /\ selectedNode = NoNode

\* C22: no connection goes from a node to itself, after any canvas operations;
\* a click on the node the pending connection was started from adds no
\* connection and ends connection mode.
C22_NoSelfConnection ==
    /\ [](\A j \in 1..Len(connections) : connections[j].from.id # connections[j].to.id)
    /\ [][(/\ isConnecting
           /\ lastEvent' = "click"
           /\ connectionStart = <<newNodeInfo(nodes[lastTarget'])>>)
          => /\ connections' = connections
             /\ ~isConnecting'
             /\ connectionStart' = NoNode]_vars

\* A click in connection mode that added no connection, among nodes of
\* different ids: the click was on the node the connection was started from.
C22_Witness ==
    /\ lastEvent = "click"
    /\ selectedNode = NoNode
    /\ ~isConnecting
    /\ connections = <<>>
    /\ Len(nodes) >= 2
    /\ \A i, j \in 1..Len(nodes) : i # j => nodes[i].id # nodes[j].id

\* The node ids a diagram text shows: the second and the fifth token of its
\* interior lines.
idsInText(text) ==
    LET body == interiorLines(text)
        idsOf(line) == LET cells == tokenize(line)
                       IN  {cells[p] : p \in {2, 5} \cap (1..Len(cells))}
    IN  UNION {idsOf(body[k]) : k \in 1..Len(body)}

endpointIds(list) ==
    UNION {{list[j].from.id, list[j].to.id} : j \in 1..Len(list)}

\* C23: the node ids in serialize's output are exactly the endpoints of the
\* connections it is given: a node of the canvas is in the text sent for
\* analysis exactly when a connection starts or ends at it, and a node with no
\* connection is not in the text.
C23_TextShowsEndpointsOnly ==
    mounted =>
        LET shown == idsInText(serialize(connections))
        IN  /\ shown = endpointIds(connections)
            /\ \A i \in 1..Len(nodes) :
                  nodes[i].id \in shown
                      <=> \E j \in 1..Len(connections) :
                             \/ connections[j].from.id = nodes[i].id
                             \/ connections[j].to.id = nodes[i].id

\* Three nodes on the canvas, two of them connected and in the text, the third
\* with no connection.
C23_Witness ==
    /\ mounted
    /\ Len(nodes) = 3
    /\ connections # <<>>
    /\ \A j \in 1..Len(connections) : isDrawn(connections[j])
    /\ \E i \in 1..Len(nodes) :
          /\ nodes[i].id \notin endpointIds(connections)
          /\ nodes[i].id \notin idsInText(serialize(connections))

----------------------------------------------------------------------------
(* Properties of the drag *)

\* C24: while a node is dragged at most one position update is pending, a
\* mouse move leaving only the frame it requested; once the button is
\* released nothing scheduled during the drag is pending or applied: every
\* pending update belongs to the drag under way, and the node's position
\* changes only by a frame that runs while the button is held in a drag.
C24_OnePendingFrame ==
    /\ [](Cardinality(frames) <= 1)
    /\ [](~buttonDown => frames = {})
    /\ [](\A f \in frames : f.drag = dragCount)
    /\ [][lastDragEvent' = "move"
          => /\ Cardinality(frames') = 1
             /\ \A f \in frames' : f.id = frameCount']_vars
    /\ [][nodePos' # nodePos
          => /\ buttonDown
             /\ isDragging
             /\ lastDragEvent' = "frame"]_vars

\* The button released in a second drag while a frame was pending: the frame
\* is cancelled and the node stays where the first drag's frame put it.
C24_Witness ==
    /\ lastDragEvent = "up"
    /\ pendingBefore = 1
    /\ frames = {}
    /\ dragCount = 2
    /\ nodePos # StartPos

====
